---- MODULE Spec2Model ----
(***************************************************************************)
(* riak-migrator (main.go): copy, back up or restore the bucket-type /     *)
(* bucket / key hierarchy of a Riak store.  The model follows main,        *)
(* syncBuckets, syncBucket with its worker goroutines, syncKey,            *)
(* syncProperties, restoreFromBackup and restoreFromStdin statement by     *)
(* statement.  Every HTTP exchange and every file-system call is one step; *)
(* the requests the current bucket has caused are counted in history       *)
(* variables.  Spec is a run of main, FairSpec the same run under fair     *)
(* scheduling, and RoundTrip takes one record through syncKey's two backup *)
(* forms and back through the two restore functions.                       *)
(***************************************************************************)
EXTENDS Integers, Sequences, FiniteSets, Bags, TLC

(* ---------------------------------------------------------------- bounds *)
MaxParallel == 2        \* values of -parallel explored: 1..MaxParallel
MaxLines    == 2        \* lines on stdin
MaxKeyLen   == 2        \* characters of a key in the round trips
MaxValueLen == 2        \* bytes of a value in the round trips

(* ------------------------------------------------------------ the inputs *)
\* strings.Split(*bucketTypes, ","): the configured bucket types, in order
BucketTypeList == <<"default", "sets">>

\* Bucket names the source may list.  "." is a name filepath.Join cleans
\* away, so the backup directory of that bucket is its bucket-type directory.
DotName     == "."
BucketNames == {"users", DotName}

\* Key names the source may list, as sequences of characters.
KeyNames == {<<"a">>, <<" ">>}

\* HTTP results.  NoResponse stands for the branch err != nil of a request
\* (no response at all); the others are status codes.
NoResponse     == 0
SourceStatuses == {NoResponse, 200, 404, 500}           \* answers to a GET
DestStatuses   == {NoResponse, 200, 201, 204, 400, 500} \* answers to a PUT

Range(s) == {s[n] : n \in DOMAIN s}

\* Duplicate-free sequences over S of length at most n.
RECURSIVE Listings(_, _)
Listings(S, n) ==
    IF n = 0 THEN {<<>>}
    ELSE LET shorter == Listings(S, n - 1)
         IN  shorter \cup
             UNION {{Append(l, x) : x \in S \ Range(l)} : l \in shorter}

\* What a listing endpoint may return: any names, each once, in any order
\* (a bucket holds each key once, a bucket type each bucket once).
BucketLists == Listings(BucketNames, Cardinality(BucketNames))
KeyLists    == Listings(KeyNames, Cardinality(KeyNames))

(* ------------------------------------------------------- pure operations *)
\* url.QueryEscape on one character: unreserved characters stay, a space
\* becomes "+", everything else becomes %XX.
EscapeChar(c) ==
    CASE c = " " -> <<"+">>
      [] c = "/" -> <<"%", "2", "F">>
      [] c = "+" -> <<"%", "2", "B">>
      [] OTHER   -> <<c>>

RECURSIVE QueryEscape(_)
QueryEscape(key) ==
    IF key = <<>> THEN <<>>
    ELSE EscapeChar(Head(key)) \o QueryEscape(Tail(key))

\* filepath.Join(dir, name): Clean drops a "." element.
Join(dir, name) == IF name = DotName THEN dir ELSE Append(dir, name)

\* *backupDir
Root == <<"backup">>

\* os.Stat(path) followed by !os.IsNotExist(err): the path is there.
ExistsNever(d, path) == FALSE
Exists(d, path) == path \in d

\* os.Mkdir(path) returns nil exactly when the path was not there.
MkdirAlways(d, path) == TRUE
MkdirOK(d, path) == ~Exists(d, path)

\* syncKey's test of the destination response
PutAny(status) == status # NoResponse
PutOK(status) == status \in {200, 201, 204}

\* syncBucket's test of the key listing response
KeysNotFoundNever(status) == FALSE
KeysNotFound(status) == status = 404

(* ------------------------------------------------- records and encodings *)
\* Characters of the record encodings.
Quote     == "\""
Backslash == "\\"
Slash     == "/"

\* The sequences over S of length at most n.
RECURSIVE SeqsUpTo(_, _)
SeqsUpTo(S, n) ==
    IF n = 0 THEN {<<>>}
    ELSE LET shorter == SeqsUpTo(S, n - 1)
         IN  shorter \cup UNION {{Append(l, x) : x \in S} : l \in shorter}

\* The kv struct of the restore functions; its zero value.
KV(t, b, k, v) == [bucket_type |-> t, bucket |-> b, key |-> k, value |-> v]
ZeroKV == KV(<<>>, <<>>, <<>>, <<>>)

\* encoding/base64, StdEncoding: the alphabet, three bytes to four characters
B64 ==
    <<"A", "B", "C", "D", "E", "F", "G", "H", "I", "J", "K", "L", "M",
      "N", "O", "P", "Q", "R", "S", "T", "U", "V", "W", "X", "Y", "Z",
      "a", "b", "c", "d", "e", "f", "g", "h", "i", "j", "k", "l", "m",
      "n", "o", "p", "q", "r", "s", "t", "u", "v", "w", "x", "y", "z",
      "0", "1", "2", "3", "4", "5", "6", "7", "8", "9", "+", "/">>
Pad == "="

RECURSIVE Base64Enc(_)
Base64Enc(v) ==
    IF v = <<>> THEN <<>>
    ELSE IF Len(v) = 1
    THEN <<B64[v[1] \div 4 + 1], B64[(v[1] % 4) * 16 + 1], Pad, Pad>>
    ELSE IF Len(v) = 2
    THEN <<B64[v[1] \div 4 + 1], B64[(v[1] % 4) * 16 + v[2] \div 16 + 1],
           B64[(v[2] % 16) * 4 + 1], Pad>>
    ELSE <<B64[v[1] \div 4 + 1], B64[(v[1] % 4) * 16 + v[2] \div 16 + 1],
           B64[(v[2] % 16) * 4 + v[3] \div 64 + 1], B64[(v[3] % 64) + 1]>>
         \o Base64Enc(SubSeq(v, 4, Len(v)))

\* The place of a character in the alphabet, from 0; -1 if it has none.
B64Index(c) ==
    IF \E n \in DOMAIN B64 : B64[n] = c
    THEN (CHOOSE n \in DOMAIN B64 : B64[n] = c) - 1
    ELSE -1

RECURSIVE Base64Dec(_)
Base64Dec(text) ==
    IF text = <<>> THEN [ok |-> TRUE, bytes |-> <<>>]
    ELSE IF Len(text) < 4 THEN [ok |-> FALSE, bytes |-> <<>>]
    ELSE LET n1 == B64Index(text[1])
             n2 == B64Index(text[2])
             n3 == B64Index(text[3])
             n4 == B64Index(text[4])
             b1 == n1 * 4 + n2 \div 16
             b2 == (n2 % 16) * 16 + n3 \div 4
             b3 == (n3 % 4) * 64 + n4
             rest == Base64Dec(SubSeq(text, 5, Len(text)))
         IN  IF n1 < 0 \/ n2 < 0 THEN [ok |-> FALSE, bytes |-> <<>>]
             ELSE IF text[3] = Pad /\ text[4] = Pad /\ Len(text) = 4
             THEN [ok |-> TRUE, bytes |-> <<b1>>]
             ELSE IF n3 >= 0 /\ text[4] = Pad /\ Len(text) = 4
             THEN [ok |-> TRUE, bytes |-> <<b1, b2>>]
             ELSE IF n3 >= 0 /\ n4 >= 0 /\ rest.ok
             THEN [ok |-> TRUE, bytes |-> <<b1, b2, b3>> \o rest.bytes]
             ELSE [ok |-> FALSE, bytes |-> <<>>]

\* encoding/json on a string: between quotes, a quote or a backslash
\* preceded by a backslash.
RECURSIVE JsonEscape(_)
JsonEscape(str) ==
    IF str = <<>> THEN <<>>
    ELSE (IF Head(str) \in {Quote, Backslash}
          THEN <<Backslash, Head(str)>> ELSE <<Head(str)>>)
         \o JsonEscape(Tail(str))

JsonString(str) == <<Quote>> \o JsonEscape(str) \o <<Quote>>

Field(name, str) == <<name, ":">> \o JsonString(str)

\* json.Marshal of the struct of syncKey: the text of one record.  The
\* field names and the punctuation are one token each, the strings are
\* character by character.
Marshal(kv) ==
    <<"{">> \o Field("bucket_type", kv.bucket_type) \o <<",">>
            \o Field("bucket", kv.bucket) \o <<",">>
            \o Field("key", kv.key) \o <<",">>
            \o Field("value", Base64Enc(kv.value)) \o <<"}">>

\* The token at place p of a text, "" beyond its end.
Tok(text, p) == IF p \in DOMAIN text THEN text[p] ELSE ""

NoString == [ok |-> FALSE, str |-> <<>>, next |-> 0]

\* A JSON string read from the place after its opening quote: its
\* characters and the place after its closing quote.
RECURSIVE ScanString(_, _, _)
ScanString(text, p, acc) ==
    IF p \notin DOMAIN text THEN NoString
    ELSE IF text[p] = Quote THEN [ok |-> TRUE, str |-> acc, next |-> p + 1]
    ELSE IF text[p] = Backslash
    THEN IF p + 1 \in DOMAIN text
         THEN ScanString(text, p + 2, Append(acc, text[p + 1]))
         ELSE NoString
    ELSE ScanString(text, p + 1, Append(acc, text[p]))

ReadField(text, p, name) ==
    IF Tok(text, p) = name /\ Tok(text, p + 1) = ":" /\ Tok(text, p + 2) = Quote
    THEN ScanString(text, p + 3, <<>>)
    ELSE NoString

\* json.Unmarshal into the kv struct, for texts of the shape Marshal
\* writes; any other text is a decoding error.
Unmarshal(text) ==
    LET t == ReadField(text, 2, "bucket_type")
        b == ReadField(text, t.next + 1, "bucket")
        k == ReadField(text, b.next + 1, "key")
        v == ReadField(text, k.next + 1, "value")
        d == Base64Dec(v.str)
    IN  IF /\ Tok(text, 1) = "{"
           /\ t.ok /\ Tok(text, t.next) = ","
           /\ b.ok /\ Tok(text, b.next) = ","
           /\ k.ok /\ Tok(text, k.next) = ","
           /\ v.ok /\ Tok(text, v.next) = "}" /\ v.next = Len(text)
           /\ d.ok
        THEN [ok |-> TRUE, kv |-> KV(t.str, b.str, k.str, d.bytes)]
        ELSE [ok |-> FALSE, kv |-> ZeroKV]

\* filepath.Join of path elements, as a string: the elements that are not
\* empty and not ".", with a slash between them.
RECURSIVE JoinPath(_)
JoinPath(elems) ==
    IF elems = <<>> THEN <<>>
    ELSE LET rest == JoinPath(Tail(elems))
         IN  IF Head(elems) \in {<<>>, <<DotName>>} THEN rest
             ELSE IF rest = <<>> THEN Head(elems)
             ELSE Head(elems) \o <<Slash>> \o rest

\* strings.Split(path, "/")
RECURSIVE Split(_)
Split(path) ==
    IF \A n \in DOMAIN path : path[n] # Slash THEN <<path>>
    ELSE LET n == CHOOSE m \in DOMAIN path :
                      path[m] = Slash /\ \A l \in 1..(m - 1) : path[l] # Slash
         IN  <<SubSeq(path, 1, n - 1)>> \o Split(SubSeq(path, n + 1, Len(path)))

(* ----------------------------------------------------------------- state *)
VARIABLES
    backup, backupStdout, restoreBackup, skipExisting, parallel,  \* the flags
    restoreStdin, \* the flag -restore-stdin
    rootAtStart,  \* *backupDir is there when the process starts
    pc,           \* where the main goroutine is
    exit,         \* "running", or how the process ended: "zero" / "nonzero"
    ti,           \* main: index of the bucket type being synced
    buckets, bi,  \* syncBuckets: the decoded bucket listing, loop index
    keys, i,      \* syncBucket: the decoded key listing, keys offered so far
    closed,       \* syncBucket: close(keysC) has run
    wg,           \* syncBucket: the WaitGroup counter
    workers,      \* bag of the live worker goroutines (see Worker)
    dirs, files,  \* file system: directories, backup files
    stdout,       \* os.Stdout: the chunks written, one per Write call, since
                  \* the last bucket was reached with the output at a line end
    progress,     \* the progress line the last step logged, <<>> if none
    allKeys, fidx, \* restoreFromBackup: files found by the walk, position
    \* history of the bucket reached last (reset when a bucket is reached)
    seq,          \* number of buckets reached by the loop of syncBuckets
    cur,          \* <<bucket type, bucket>> of the bucket reached last
    dirAtReach,   \* its backup directory existed when it was reached
    nProps, nPropsPut, nList, nFetch, \* requests issued for it, by kind
    listStatus,   \* status of its key listing response
    puts,         \* bag of destination key writes <<type, bucket, key>>
    completed,    \* calls of syncKey that returned nil
    ret,          \* "none", or how syncBucket returned: "ok" / "err"
    skipped,      \* the loop of syncBuckets took its continue
    propsStatus, propsPutStatus, \* answers to its properties GET and PUT
    handed,       \* the keys sent on keysC, in the order of the sends
    fetchOK,      \* its keys whose GET from the source was answered by 200
    \* history of the run
    badPutSeq,    \* bucket of the first key write answered by a bad status
    badFetchSeq,  \* bucket of the first key fetch not answered by 200
    restoreErr,   \* a callback of the second walk returned an error
    \* restoreFromStdin
    stdin,        \* what the calls of ReadLine still to come return
    input,        \* the lines of the input, as they were given
    restored,     \* the kv of the destination writes issued, in order
    streamErr,    \* "none", or why restoreFromStdin returned an error
    \* one record taken through a backup and back (see RoundTrip)
    tRec,         \* the record as discovered and fetched
    tStage,       \* "fetched", "file", "stream", "fromFile", "fromStream"
    tPath, tBody, \* the backup file: its path and content
    tLine,        \* the line on stdout
    tOut          \* the kv the restore rebuilt

flags   == <<backup, backupStdout, restoreBackup, skipExisting, parallel,
             restoreStdin, rootAtStart>>
loop    == <<ti, buckets, bi>>
pipe    == <<keys, i, closed, wg, workers>>
fsys    == <<dirs, files>>
restore == <<allKeys, fidx, restoreErr>>
stream  == <<stdin, input, restored, streamErr>>
trip    == <<tRec, tStage, tPath, tBody, tLine, tOut>>
counts  == <<nProps, nPropsPut, nList, nFetch, listStatus, puts, completed>>
seen    == <<skipped, propsStatus, propsPutStatus, handed, fetchOK, badFetchSeq>>
hist    == <<seq, cur, dirAtReach, counts, ret, badPutSeq, seen>>
vars    == <<flags, pc, exit, loop, pipe, fsys, stdout, progress, restore, hist,
             stream, trip>>

\* *backup && !*backupStdout
ToFile == backup /\ ~backupStdout

bucketType == BucketTypeList[ti]
bucket     == buckets[bi]
total      == Len(keys)

\* filepath.Join(*backupDir, bucketType) and (*backupDir, bucketType, bucket)
TypeDir(t)      == Join(Root, t)
BucketDir(t, b) == Join(Join(Root, t), b)

\* A backup file: the directory it is in and its name.
File(t, b, name) == [dir |-> BucketDir(t, b), name |-> name]

\* The backup trees restoreFromBackup may find: files of one bucket.
TreeFiles == {File(BucketTypeList[1], "users", QueryEscape(k)) : k \in KeyNames}

\* filepath.WalkDir visits a directory's entries in lexical order of name.
CharRank(c) == CASE c = "+" -> 1 [] c = "a" -> 2 [] OTHER -> 3
NameBefore(m, n) == CharRank(Head(m)) < CharRank(Head(n))

RECURSIVE WalkOrder(_)
WalkOrder(S) ==
    IF S = {} THEN <<>>
    ELSE LET first == CHOOSE f \in S :
                          \A g \in S \ {f} : NameBefore(f.name, g.name)
         IN  <<first>> \o WalkOrder(S \ {first})

\* A worker goroutine: the bucket its closure captured (seq tells the
\* channel and WaitGroup of which call of syncBucket it uses), where it is
\* in its loop, and the key it holds.
Worker(s, t, b) ==
    [seq |-> s, bucketType |-> t, bucket |-> b, st |-> "recv", key |-> <<>>]

\* Worker w at another place of its loop.
At(w, st, key) == [w EXCEPT !.st = st, !.key = key]

\* The bag with worker w replaced by v.
Replace(w, v) == (workers (-) SetToBag({w})) (+) SetToBag({v})

\* The lines restoreFromStdin may be given: records as syncKey writes them
\* and a text that is no record.
StreamRecords ==
    {KV(<<"t">>, <<"b">>, <<"a">>, <<10>>), KV(<<"t">>, <<"b">>, <<"+">>, <<>>)}
TornLine    == <<"{", "bucket_type">>
StreamLines == {Marshal(r) : r \in StreamRecords} \cup {TornLine}

\* bufio.Reader.ReadLine on one line: the whole line, or, for a line longer
\* than the buffer, a first part with isPrefix set and then the rest.
Whole(line)  == <<[bytes |-> line, isPrefix |-> FALSE]>>
Halves(line) ==
    <<[bytes |-> SubSeq(line, 1, Len(line) \div 2), isPrefix |-> TRUE],
      [bytes |-> SubSeq(line, Len(line) \div 2 + 1, Len(line)),
       isPrefix |-> FALSE]>>

\* What the calls of ReadLine may return on the lines of in.
RECURSIVE Readings(_)
Readings(in) ==
    IF in = <<>> THEN {<<>>}
    ELSE {c \o r : c \in {Whole(Head(in)), Halves(Head(in))},
                   r \in Readings(Tail(in))}

\* No record is being taken through a round trip.
TripIdle ==
    /\ tRec = ZeroKV /\ tStage = "none" /\ tPath = <<>> /\ tBody = <<>>
    /\ tLine = <<>> /\ tOut = ZeroKV

Init ==
    /\ backup \in BOOLEAN /\ backupStdout \in BOOLEAN
    /\ restoreBackup \in BOOLEAN /\ skipExisting \in BOOLEAN
    /\ restoreStdin \in BOOLEAN
    \* one representative of each set of flag values that behave alike
    /\ restoreStdin => ~backup /\ ~restoreBackup
    /\ input \in (IF restoreStdin THEN SeqsUpTo(StreamLines, MaxLines) ELSE {<<>>})
    /\ stdin \in Readings(input)
    /\ restored = <<>> /\ streamErr = "none"
    /\ TripIdle
    /\ restoreBackup => ~backup
    /\ backupStdout => backup
    /\ skipExisting => ToFile
    /\ parallel \in 1..MaxParallel
    /\ (restoreBackup \/ restoreStdin) => parallel = 1
    /\ pc = "main" /\ exit = "running"
    /\ ti = 1 /\ buckets = <<>> /\ bi = 1
    /\ keys = <<>> /\ i = 0 /\ closed = FALSE /\ wg = 0
    /\ workers = EmptyBag
    /\ \/ ~restoreBackup /\ dirs = {} /\ files = {}
       \/ ToFile /\ dirs = {Root} /\ files = {}
       \/ restoreBackup /\ dirs = {} /\ files = {}
       \/ /\ restoreBackup
          /\ files \in SUBSET TreeFiles
          /\ dirs = {Root} \cup {f.dir : f \in files}
    /\ stdout = <<>> /\ progress = <<>>
    /\ allKeys = <<>> /\ fidx = 1 /\ restoreErr = FALSE
    /\ seq = 0 /\ cur = <<>> /\ dirAtReach = FALSE
    /\ nProps = 0 /\ nPropsPut = 0 /\ nList = 0 /\ nFetch = 0
    /\ listStatus = NoResponse /\ puts = EmptyBag /\ completed = 0
    /\ ret = "none" /\ badPutSeq = 0
    /\ rootAtStart = (Root \in dirs)
    /\ skipped = FALSE /\ propsStatus = NoResponse /\ propsPutStatus = NoResponse
    /\ handed = <<>> /\ fetchOK = {} /\ badFetchSeq = 0

Running == exit = "running"

\* try(err) with err != nil: log, os.Exit(1)
Die == exit' = "nonzero"

(* ------------------------------------------------------------------ main *)
\* main up to the loop over the bucket types
Main ==
    /\ Running /\ pc = "main"
    /\ IF restoreStdin
       THEN pc' = "stdin" /\ UNCHANGED <<exit, dirs>>
       ELSE IF restoreBackup
       THEN pc' = "walk1" /\ UNCHANGED <<exit, dirs>>
       ELSE IF ToFile
       THEN IF MkdirOK(dirs, Root)
            THEN dirs' = dirs \cup {Root} /\ pc' = "types" /\ UNCHANGED exit
            ELSE Die /\ UNCHANGED <<pc, dirs>>
       ELSE pc' = "types" /\ UNCHANGED <<exit, dirs>>
    /\ UNCHANGED <<flags, stream, trip, loop, pipe, files, stdout, progress, restore,
                   hist>>

\* main: the loop over the bucket types has ended; "finish!", exit status 0
Finish ==
    /\ Running /\ pc = "types" /\ ti > Len(BucketTypeList)
    /\ exit' = "zero"
    /\ UNCHANGED <<flags, stream, trip, pc, loop, pipe, fsys, stdout, progress, restore,
                   hist>>

\* syncBuckets up to its loop: list the buckets, make the type directory,
\* decode.  An error returned goes to try in main.
SyncBuckets ==
    /\ Running /\ pc = "types" /\ ti <= Len(BucketTypeList)
    /\ \E status \in SourceStatuses, decodes \in BOOLEAN, list \in BucketLists :
         IF status = NoResponse
         THEN Die /\ UNCHANGED <<pc, buckets, bi, dirs>>
         ELSE IF ToFile /\ ~MkdirOK(dirs, TypeDir(bucketType))
         THEN Die /\ UNCHANGED <<pc, buckets, bi, dirs>>
         ELSE /\ dirs' = IF ToFile THEN dirs \cup {TypeDir(bucketType)} ELSE dirs
              /\ IF decodes
                 THEN /\ buckets' = list /\ bi' = 1 /\ pc' = "buckets"
                      /\ UNCHANGED exit
                 ELSE Die /\ UNCHANGED <<pc, buckets, bi>>
    /\ UNCHANGED <<flags, stream, trip, ti, pipe, files, stdout, progress, restore, hist>>

\* syncBuckets: its loop has ended, return nil; main takes the next type
BucketsDone ==
    /\ Running /\ pc = "buckets" /\ bi > Len(buckets)
    /\ ti' = ti + 1 /\ pc' = "types"
    /\ UNCHANGED <<flags, stream, trip, exit, buckets, bi, pipe, fsys, stdout, progress,
                   restore, hist>>

\* The output is at a line end: every data chunk written has been followed
\* by the newline of its call of syncKey.
AtLineEnd(out) ==
    Cardinality({n \in DOMAIN out : out[n][1] = "data"}) =
        Cardinality({n \in DOMAIN out : out[n][1] = "newline"})

\* if *skipExisting && *backup && !*backupStdout { Stat(type directory) }
SkipBucket(t) == skipExisting /\ ToFile /\ Exists(dirs, TypeDir(t))

\* The loop of syncBuckets reaches a bucket: the history starts afresh.
Reach ==
    /\ seq' = seq + 1
    /\ cur' = <<bucketType, bucket>>
    /\ dirAtReach' = (BucketDir(bucketType, bucket) \in dirs)
    /\ nProps' = 0 /\ nPropsPut' = 0 /\ nList' = 0 /\ nFetch' = 0
    /\ listStatus' = NoResponse /\ puts' = EmptyBag /\ completed' = 0
    /\ ret' = "none" /\ progress' = <<>>
    /\ stdout' = IF AtLineEnd(stdout) THEN <<>> ELSE stdout
    /\ keys' = <<>> /\ i' = 0
    /\ skipped' = SkipBucket(bucketType)
    /\ propsStatus' = NoResponse /\ propsPutStatus' = NoResponse
    /\ handed' = <<>> /\ fetchOK' = {}
    /\ UNCHANGED <<badPutSeq, badFetchSeq>>

\* syncBuckets: continue, the bucket is skipped
Skip ==
    /\ Running /\ pc = "buckets" /\ bi <= Len(buckets)
    /\ SkipBucket(bucketType)
    /\ Reach
    /\ bi' = bi + 1
    /\ UNCHANGED <<flags, stream, trip, pc, exit, ti, buckets, closed, wg, workers, fsys,
                   restore>>

\* if *backup { ... } else { syncProperties }: live sync copies properties
WithPropsAlways == TRUE
WithProps == ~backup

\* syncBuckets calls syncBucket, which makes the bucket directory (backup
\* to files) or goes on to the properties (live sync)
Enter ==
    /\ Running /\ pc = "buckets" /\ bi <= Len(buckets)
    /\ ~SkipBucket(bucketType)
    /\ Reach
    /\ IF ToFile /\ ~MkdirOK(dirs, BucketDir(bucketType, bucket))
       THEN Die /\ UNCHANGED <<pc, dirs>>
       ELSE /\ dirs' = IF ToFile THEN dirs \cup {BucketDir(bucketType, bucket)}
                       ELSE dirs
            /\ pc' = IF WithProps THEN "props" ELSE "listKeys"
            /\ UNCHANGED exit
    /\ UNCHANGED <<flags, stream, trip, loop, closed, wg, workers, files, restore>>

\* syncBucket returns an error: syncBuckets wraps and returns it, try exits
Fail == ret' = "err" /\ Die

\* syncBucket returns nil: "finish sync bucket", the loop goes on
Return == ret' = "ok" /\ bi' = bi + 1 /\ pc' = "buckets"

(* -------------------------------------------------------- syncProperties *)
\* syncProperties: GET the properties of the bucket from the source
PropsGet ==
    /\ Running /\ pc = "props"
    /\ nProps' = nProps + 1
    /\ \E status \in SourceStatuses :
         /\ propsStatus' = status
         /\ IF status = NoResponse THEN Fail /\ UNCHANGED pc
            ELSE IF status = 404 THEN pc' = "listKeys" /\ UNCHANGED <<exit, ret>>
            ELSE IF status # 200 THEN Fail /\ UNCHANGED pc
            ELSE pc' = "propsPut" /\ UNCHANGED <<exit, ret>>
    /\ UNCHANGED <<flags, stream, trip, loop, pipe, fsys, stdout, progress, restore, seq,
                   cur, dirAtReach, nPropsPut, nList, nFetch, listStatus, puts,
                   completed, badPutSeq, skipped, propsPutStatus, handed,
                   fetchOK, badFetchSeq>>

\* syncProperties' test of the destination response
PropsPutStrict(status) == status = 204
PropsPutOK(status) == status = 204 \/ status = 400

\* syncProperties: PUT them to the destination
PropsPut ==
    /\ Running /\ pc = "propsPut"
    /\ nPropsPut' = nPropsPut + 1
    /\ \E status \in DestStatuses :
         /\ propsPutStatus' = status
         /\ IF status = NoResponse THEN Fail /\ UNCHANGED pc
            ELSE IF ~PropsPutOK(status) THEN Fail /\ UNCHANGED pc
            ELSE pc' = "listKeys" /\ UNCHANGED <<exit, ret>>
    /\ UNCHANGED <<flags, stream, trip, loop, pipe, fsys, stdout, progress, restore, seq,
                   cur, dirAtReach, nProps, nList, nFetch, listStatus, puts,
                   completed, badPutSeq, skipped, propsStatus, handed, fetchOK,
                   badFetchSeq>>

(* ------------------------------------------------------------ syncBucket *)
\* syncBucket: list the keys, decode, make the channel, start the workers
ListKeys ==
    /\ Running /\ pc = "listKeys"
    /\ nList' = nList + 1
    /\ \E status \in SourceStatuses, decodes \in BOOLEAN, list \in KeyLists :
         /\ listStatus' = status
         /\ IF status = NoResponse
            THEN Fail /\ UNCHANGED <<pc, bi, pipe>>
            ELSE IF KeysNotFound(status)
            THEN Return /\ UNCHANGED <<exit, pipe>>
            ELSE IF ~decodes
            THEN Fail /\ UNCHANGED <<pc, bi, pipe>>
            ELSE /\ keys' = list /\ i' = 0 /\ closed' = FALSE
                 /\ wg' = parallel
                 /\ workers' = workers (+) (Worker(seq, bucketType, bucket) :> parallel)
                 /\ pc' = "feed"
                 /\ UNCHANGED <<exit, ret, bi>>
    /\ UNCHANGED <<flags, stream, trip, ti, buckets, fsys, stdout, progress, restore, seq,
                   cur, dirAtReach, seen, nProps, nPropsPut, nFetch, puts, completed,
                   badPutSeq>>

\* log.Printf("[%s] progress: %d/%d", bucket, i, total)
ProgressOfDone(b, n, t) == <<b, completed, t>>
Progress(b, n, t) == <<b, n, t>>

\* select case <-tick.C: log the progress
Tick ==
    /\ Running /\ pc = "feed" /\ i < total
    /\ progress' = Progress(bucket, i, total)
    /\ UNCHANGED <<flags, stream, trip, pc, exit, loop, pipe, fsys, stdout, restore, hist>>

\* A step that logs no progress line.
Quiet == progress' = <<>>

\* for key := range keysC: the worker is blocked receiving
ReceivingOrBusy(w) == w.st \in {"recv", "get"}
Receiving(w) == w.st = "recv"

\* keys.Keys[i], the key offered after n sends (Go indexes from 0)
KeyFromEnd(ks, n) == ks[Len(ks) - n]
KeyAt(ks, n) == ks[n + 1]

\* select case keysC <- keys.Keys[i]: a worker of this bucket receives it
Handoff ==
    /\ Running /\ pc = "feed" /\ i < total
    /\ \E w \in BagToSet(workers) :
         /\ w.seq = seq /\ Receiving(w)
         /\ workers' = Replace(w, At(w, "get", KeyAt(keys, i)))
    /\ handed' = Append(handed, KeyAt(keys, i))
    /\ i' = i + 1
    /\ Quiet
    /\ UNCHANGED <<flags, stream, trip, pc, exit, loop, keys, closed, wg, fsys, stdout,
                   restore, seq, cur, dirAtReach, counts, ret, badPutSeq,
                   skipped, propsStatus, propsPutStatus, fetchOK, badFetchSeq>>

\* for i := 0; i < total; has ended
FedAllButOne(n, t) == n >= t - 1
FedAll(n, t) == n >= t

\* close(keysC)
Close ==
    /\ Running /\ pc = "feed" /\ FedAll(i, total)
    /\ closed' = TRUE /\ pc' = "wait"
    /\ UNCHANGED <<flags, stream, trip, exit, loop, keys, i, wg, workers, fsys, stdout,
                   progress, restore, hist>>

\* wg.Wait() returns when the counter is zero
NoWait(n) == TRUE
WaitDone(n) == n = 0

\* wg.Wait(); return nil
Wait ==
    /\ Running /\ pc = "wait" /\ WaitDone(wg)
    /\ Return
    /\ UNCHANGED <<flags, stream, trip, exit, ti, buckets, pipe, fsys, stdout, progress,
                   restore, seq, cur, dirAtReach, seen, counts, badPutSeq>>

(* --------------------------------------------- the workers and syncKey *)
\* The worker's bucket: that of the bucket reached last, except for a
\* worker that outlived its syncBucket.
Mine(w) == w.seq = seq

\* syncKey returned nil: back to the range loop
Completed(w) ==
    /\ workers' = Replace(w, At(w, "recv", <<>>))
    /\ completed' = IF Mine(w) THEN completed + 1 ELSE completed

\* syncKey's test of the source response
FetchAny(status) == status # NoResponse
FetchOK(status) == status = 200

\* syncKey: GET the key from the source, test the status
Fetch(w) ==
    /\ Running /\ w.st = "get"
    /\ nFetch' = IF Mine(w) THEN nFetch + 1 ELSE nFetch
    /\ \E status \in SourceStatuses :
         /\ workers' = Replace(w, At(w, IF status = NoResponse \/ ~FetchOK(status)
                                        THEN "failed"
                                        ELSE IF ToFile THEN "wfile"
                                        ELSE IF backup /\ backupStdout THEN "wdata"
                                        ELSE "put", w.key))
         /\ fetchOK' = IF status = 200 /\ Mine(w)
                       THEN fetchOK \cup {w.key} ELSE fetchOK
         /\ badFetchSeq' = IF badFetchSeq = 0 /\ status # 200
                           THEN w.seq ELSE badFetchSeq
    /\ Quiet
    /\ UNCHANGED <<flags, stream, trip, pc, exit, loop, keys, i, closed, wg, fsys, stdout,
                   restore, seq, cur, dirAtReach, nProps, nPropsPut, nList,
                   listStatus, puts, completed, ret, badPutSeq, skipped,
                   propsStatus, propsPutStatus, handed>>

\* syncKey, backup to files: io.ReadAll, os.WriteFile
WriteFile(w) ==
    /\ Running /\ w.st = "wfile"
    /\ \E ok \in BOOLEAN :
         IF ok
         THEN /\ files' = files \cup
                     {File(w.bucketType, w.bucket, QueryEscape(w.key))}
              /\ Completed(w)
         ELSE /\ workers' = Replace(w, At(w, "failed", w.key))
              /\ UNCHANGED <<files, completed>>
    /\ Quiet
    /\ UNCHANGED <<flags, stream, trip, pc, exit, loop, keys, i, closed, wg, dirs, stdout,
                   restore, seq, cur, dirAtReach, seen, nProps, nPropsPut, nList,
                   nFetch, listStatus, puts, ret, badPutSeq>>

\* syncKey, backup to stdout: io.ReadAll, json.Marshal, os.Stdout.Write(data).
\* The chunk is the record's JSON; it is told apart by its key.
WriteData(w) ==
    /\ Running /\ w.st = "wdata"
    /\ \E ok \in BOOLEAN :
         IF ok
         THEN /\ stdout' = Append(stdout, <<"data", QueryEscape(w.key)>>)
              /\ workers' = Replace(w, At(w, "wnl", w.key))
         ELSE /\ workers' = Replace(w, At(w, "failed", w.key))
              /\ UNCHANGED stdout
    /\ Quiet
    /\ UNCHANGED <<flags, stream, trip, pc, exit, loop, keys, i, closed, wg, fsys, restore,
                   hist>>

\* syncKey, backup to stdout: os.Stdout.WriteString("\n")
WriteNewline(w) ==
    /\ Running /\ w.st = "wnl"
    /\ \E ok \in BOOLEAN :
         IF ok
         THEN /\ stdout' = Append(stdout, <<"newline">>)
              /\ Completed(w)
         ELSE /\ workers' = Replace(w, At(w, "failed", w.key))
              /\ UNCHANGED <<stdout, completed>>
    /\ Quiet
    /\ UNCHANGED <<flags, stream, trip, pc, exit, loop, keys, i, closed, wg, fsys, restore,
                   seq, cur, dirAtReach, seen, nProps, nPropsPut, nList, nFetch,
                   listStatus, puts, ret, badPutSeq>>

\* syncKey, live sync: PUT the key to the destination, test the status
Put(w) ==
    /\ Running /\ w.st = "put"
    /\ puts' = IF Mine(w)
               THEN puts (+) SetToBag({<<w.bucketType, w.bucket, QueryEscape(w.key)>>})
               ELSE puts
    /\ \E status \in DestStatuses :
         /\ badPutSeq' = IF badPutSeq = 0 /\ status \notin {NoResponse, 200, 201, 204}
                         THEN w.seq ELSE badPutSeq
         /\ IF status # NoResponse /\ PutOK(status)
            THEN Completed(w)
            ELSE /\ workers' = Replace(w, At(w, "failed", w.key))
                 /\ UNCHANGED completed
    /\ Quiet
    /\ UNCHANGED <<flags, stream, trip, pc, exit, loop, keys, i, closed, wg, fsys, stdout,
                   restore, seq, cur, dirAtReach, seen, nProps, nPropsPut, nList,
                   nFetch, listStatus, ret>>

\* wg.Done()
DoneForgotten(n) == n
Done(n) == n - 1

\* the range loop ends on the closed channel; defer wg.Done()
WorkerExit(w) ==
    /\ Running /\ w.st = "recv" /\ (closed \/ ~Mine(w))
    /\ workers' = workers (-) SetToBag({w})
    /\ wg' = IF Mine(w) THEN Done(wg) ELSE wg
    /\ Quiet
    /\ UNCHANGED <<flags, stream, trip, pc, exit, loop, keys, i, closed, fsys, stdout,
                   restore, hist>>

\* syncKey returned an error: try(fmt.Errorf(...)) exits the process
WorkerFail(w) ==
    /\ Running /\ w.st = "failed"
    /\ Die
    /\ UNCHANGED <<flags, stream, trip, pc, loop, pipe, fsys, stdout, progress, restore,
                   hist>>

(* ----------------------------------------------------- restoreFromBackup *)
\* the first filepath.WalkDir collects the files
Walk1 ==
    /\ Running /\ pc = "walk1"
    /\ IF ~Exists(dirs, Root)
       THEN Die /\ UNCHANGED <<pc, allKeys>>
       ELSE allKeys' = WalkOrder(files) /\ pc' = "walk2" /\ UNCHANGED exit
    /\ UNCHANGED <<flags, stream, trip, loop, pipe, fsys, stdout, progress, fidx,
                   restoreErr, hist>>

\* after the second walk: err = filepath.WalkDir(...); return nil
RestoreReturns(err) == "nil"

\* try(restoreFromBackup()); return
RestoreExit(err) ==
    exit' = IF RestoreReturns(err) = "nil" THEN "zero" ELSE "nonzero"

\* the callback of the second walk on one file: os.ReadFile, the triple
\* from the path, PUT to the destination
RestoreFile ==
    /\ Running /\ pc = "walk2" /\ fidx <= Len(allKeys)
    /\ \E readOK \in BOOLEAN, status \in DestStatuses :
         LET f    == allKeys[fidx]
             path == f.dir \o <<f.name>>
             n    == Len(path)
         IN  IF ~readOK
             THEN /\ restoreErr' = TRUE /\ RestoreExit("err")
                  /\ UNCHANGED <<fidx, puts>>
             ELSE /\ puts' = puts (+) SetToBag({<<path[n - 2], path[n - 1], path[n]>>})
                  /\ IF status = NoResponse \/ status \notin {200, 201, 204}
                     THEN /\ restoreErr' = TRUE /\ RestoreExit("err")
                          /\ UNCHANGED fidx
                     ELSE /\ fidx' = fidx + 1
                          /\ UNCHANGED <<exit, restoreErr>>
    /\ UNCHANGED <<flags, stream, trip, pc, loop, pipe, fsys, stdout, progress, allKeys,
                   seq, cur, dirAtReach, seen, nProps, nPropsPut, nList, nFetch,
                   listStatus, completed, ret, badPutSeq>>

\* the second walk has visited every file
RestoreDone ==
    /\ Running /\ pc = "walk2" /\ fidx > Len(allKeys)
    /\ RestoreExit("nil")
    /\ UNCHANGED <<flags, stream, trip, pc, loop, pipe, fsys, stdout, progress, restore,
                   hist>>

(* ------------------------------------------------------ restoreFromStdin *)
\* LineIterator.Next: bytes = append(bytes, line...)
KeepLast(bytes, line) == line
Accumulate(bytes, line) == bytes \o line

\* LineIterator.Next on what ReadLine returns: the parts up to the first
\* one without isPrefix, put together; io.EOF when nothing is left.
RECURSIVE LineNext(_, _)
LineNext(reads, bytes) ==
    IF reads = <<>> THEN [eof |-> TRUE, line |-> <<>>, rest |-> <<>>]
    ELSE IF Head(reads).isPrefix
    THEN LineNext(Tail(reads), Accumulate(bytes, Head(reads).bytes))
    ELSE [eof |-> FALSE, line |-> Accumulate(bytes, Head(reads).bytes),
          rest |-> Tail(reads)]

\* one turn of the loop of restoreFromStdin: the next line, json.Unmarshal,
\* PUT to the destination; an error returned goes to try in main
RestoreLine ==
    /\ Running /\ pc = "stdin" /\ ~LineNext(stdin, <<>>).eof
    /\ LET r == LineNext(stdin, <<>>)
           u == Unmarshal(r.line)
       IN  /\ stdin' = r.rest
           /\ IF ~u.ok
              THEN streamErr' = "decode" /\ Die /\ UNCHANGED restored
              ELSE /\ restored' = Append(restored, u.kv)
                   /\ \E status \in DestStatuses :
                        IF status = NoResponse \/ status \notin {200, 201, 204}
                        THEN streamErr' = "write" /\ Die
                        ELSE UNCHANGED <<exit, streamErr>>
    /\ UNCHANGED <<flags, pc, loop, pipe, fsys, stdout, progress, restore,
                   hist, input, trip>>

\* io.EOF: break, "finish!", return nil; main returns
RestoreStdinDone ==
    /\ Running /\ pc = "stdin" /\ LineNext(stdin, <<>>).eof
    /\ exit' = "zero"
    /\ UNCHANGED <<flags, pc, loop, pipe, fsys, stdout, progress, restore,
                   hist, stream, trip>>

(* ------------------------------------------------------------------ spec *)
Next ==
    \/ Main \/ Finish \/ SyncBuckets \/ BucketsDone \/ Skip \/ Enter
    \/ PropsGet \/ PropsPut \/ ListKeys
    \/ Tick \/ Handoff \/ Close \/ Wait
    \/ \E w \in BagToSet(workers) : Fetch(w)
    \/ \E w \in BagToSet(workers) : WriteFile(w)
    \/ \E w \in BagToSet(workers) : WriteData(w)
    \/ \E w \in BagToSet(workers) : WriteNewline(w)
    \/ \E w \in BagToSet(workers) : Put(w)
    \/ \E w \in BagToSet(workers) : WorkerExit(w)
    \/ \E w \in BagToSet(workers) : WorkerFail(w)
    \/ Walk1 \/ RestoreFile \/ RestoreDone
    \/ RestoreLine \/ RestoreStdinDone

Spec == Init /\ [][Next]_vars

\* The Go scheduler runs every goroutine that can take a step, a send on
\* keysC happens once a receiver waits for it (select picks among its ready
\* cases at random, so the ticker cannot starve the send), and wg.Wait
\* returns once the counter is zero.  Nothing is assumed about the ticker.
FairSpec ==
    /\ Spec
    /\ WF_vars(Handoff) /\ WF_vars(Close) /\ WF_vars(Wait)
    /\ WF_vars(\E w \in BagToSet(workers) : Fetch(w))
    /\ WF_vars(\E w \in BagToSet(workers) : WriteFile(w))
    /\ WF_vars(\E w \in BagToSet(workers) : WriteData(w))
    /\ WF_vars(\E w \in BagToSet(workers) : WriteNewline(w))
    /\ WF_vars(\E w \in BagToSet(workers) : Put(w))
    /\ WF_vars(\E w \in BagToSet(workers) : WorkerExit(w))
    /\ WF_vars(\E w \in BagToSet(workers) : WorkerFail(w))

(* ------------------------------------------------------- the round trips *)
\* The records taken through a backup and back.
KeyChars    == {"a", " ", "/", "+"}
TripKeys    == SeqsUpTo(KeyChars, MaxKeyLen) \ {<<>>}
TripBuckets == {<<"b">>, <<"b", Quote>>}
TripBytes   == {10, 255}
TripValues  == SeqsUpTo(TripBytes, MaxValueLen)

\* *backupDir, cleaned
RootPath == <<"b", "a", "c", "k", "u", "p">>

\* No run of main is going on.
NoRun ==
    /\ backup = FALSE /\ backupStdout = FALSE /\ restoreBackup = FALSE
    /\ skipExisting = FALSE /\ restoreStdin = FALSE /\ rootAtStart = FALSE
    /\ parallel = 1 /\ pc = "none" /\ exit = "zero"
    /\ ti = 1 /\ buckets = <<>> /\ bi = 1
    /\ keys = <<>> /\ i = 0 /\ closed = FALSE /\ wg = 0
    /\ workers = EmptyBag /\ dirs = {} /\ files = {}
    /\ stdout = <<>> /\ progress = <<>>
    /\ allKeys = <<>> /\ fidx = 1 /\ restoreErr = FALSE
    /\ seq = 0 /\ cur = <<>> /\ dirAtReach = FALSE
    /\ nProps = 0 /\ nPropsPut = 0 /\ nList = 0 /\ nFetch = 0
    /\ listStatus = NoResponse /\ puts = EmptyBag /\ completed = 0
    /\ ret = "none" /\ badPutSeq = 0
    /\ skipped = FALSE /\ propsStatus = NoResponse /\ propsPutStatus = NoResponse
    /\ handed = <<>> /\ fetchOK = {} /\ badFetchSeq = 0
    /\ stdin = <<>> /\ input = <<>> /\ restored = <<>> /\ streamErr = "none"

run == <<flags, pc, exit, loop, pipe, fsys, stdout, progress, restore, hist,
         stream>>

\* A record of the source: discovered by the listings, its value fetched.
TripInit ==
    /\ NoRun
    /\ \E t \in {<<"t">>}, b \in TripBuckets, k \in TripKeys, v \in TripValues :
         tRec = KV(t, b, k, v)
    /\ tStage = "fetched"
    /\ tPath = <<>> /\ tBody = <<>> /\ tLine = <<>> /\ tOut = ZeroKV

\* syncKey, backup to files: the file named by the escaped key
BackupToFile ==
    /\ tStage = "fetched"
    /\ LET key == QueryEscape(tRec.key)
       IN  /\ tPath' = JoinPath(<<RootPath, tRec.bucket_type, tRec.bucket, key>>)
           /\ tBody' = tRec.value
    /\ tStage' = "file"
    /\ UNCHANGED <<run, tRec, tLine, tOut>>

\* syncKey, backup to stdout: the record marshalled with the escaped key
BackupToStream ==
    /\ tStage = "fetched"
    /\ LET key == QueryEscape(tRec.key)
       IN  tLine' = Marshal(KV(tRec.bucket_type, tRec.bucket, key, tRec.value))
    /\ tStage' = "stream"
    /\ UNCHANGED <<run, tRec, tPath, tBody, tOut>>

\* restoreFromBackup on the file: the triple from the last three segments
\* of the path, the value from the content
ReadBackFile ==
    /\ tStage = "file"
    /\ LET pathSegments == Split(tPath)
           n == Len(pathSegments)
       IN  tOut' = KV(pathSegments[n - 2], pathSegments[n - 1],
                      pathSegments[n], tBody)
    /\ tStage' = "fromFile"
    /\ UNCHANGED <<run, tRec, tPath, tBody, tLine>>

\* restoreFromStdin on the line, however ReadLine cuts it
ReadBackLine ==
    /\ tStage = "stream"
    /\ \E reads \in Readings(<<tLine>>) :
         tOut' = Unmarshal(LineNext(reads, <<>>).line).kv
    /\ tStage' = "fromStream"
    /\ UNCHANGED <<run, tRec, tPath, tBody, tLine>>

TripNext == BackupToFile \/ BackupToStream \/ ReadBackFile \/ ReadBackLine

RoundTrip == TripInit /\ [][TripNext]_vars

(* ------------------------------------------------------------ properties *)
LiveSync == ~backup /\ ~restoreBackup /\ ~restoreStdin

NoWorkers == BagToSet(workers) = {}

\* Copies in bag B of the elements of S.
RECURSIVE Copies(_, _)
Copies(S, B) ==
    IF S = {} THEN 0
    ELSE LET w == CHOOSE x \in S : TRUE
         IN  CopiesIn(w, B) + Copies(S \ {w}, B)

\* Workers holding a key: handed to them, syncKey not yet returned nil.
InFlight == Copies({w \in BagToSet(workers) : w.st # "recv"}, workers)

\* syncBucket has returned nil after running its pipeline.
Drained == ret = "ok" /\ nList = 1 /\ listStatus # 404

\* C1: in live sync, when syncBucket returns after its pipeline ran, every
\* key of the listing has been handed over, fetched and written to the
\* destination exactly once, and nothing else has been written.
C1_EveryKeyWrittenOnce ==
    (LiveSync /\ Drained) =>
        /\ i = total /\ nFetch = total /\ completed = total
        /\ BagToSet(puts) =
               {<<cur[1], cur[2], QueryEscape(k)>> : k \in Range(keys)}
        /\ \A e \in BagToSet(puts) : CopiesIn(e, puts) = 1

C1_Witness ==
    /\ LiveSync /\ Drained /\ parallel = 2
    /\ total = 2 /\ BagCardinality(puts) = 2

\* C2: in live sync, once a destination key write was answered by a status
\* outside {200, 201, 204}, the process never ends with status 0: the worker
\* is at try or the process has exited non-zero, and the main goroutine is
\* still in the pipeline of that key's bucket, so no later bucket is reached.
C2_BadWriteStopsRun ==
    badPutSeq # 0 =>
        /\ exit # "zero"
        /\ exit = "nonzero" \/ \E w \in BagToSet(workers) : w.st = "failed"
        /\ seq = badPutSeq /\ pc \in {"feed", "wait"} /\ ret = "none"

C2_Witness ==
    /\ badPutSeq # 0 /\ exit = "nonzero"
    /\ bi < Len(buckets) /\ ti < Len(BucketTypeList)

\* C3: in restore from backup, a backup file that cannot be read or a
\* destination write answered by a bad status ends the run non-zero.
C3_RestoreFailureIsFatal == restoreErr => exit = "nonzero"

\* C4: in backup to stdout, the output is a sequence of lines, each the data
\* of one record directly followed by its newline.
C4_OneRecordPerLine ==
    \A n \in DOMAIN stdout :
        stdout[n][1] = IF n % 2 = 1 THEN "data" ELSE "newline"

\* C5: syncBucket returns only after the channel is closed and every worker
\* has exited: outside the pipeline no worker is alive, every live worker
\* belongs to the bucket reached last, and a returned pipeline is closed
\* with its WaitGroup at zero.
C5_Barrier ==
    /\ pc \notin {"feed", "wait"} => NoWorkers
    /\ \A w \in BagToSet(workers) :
           w.seq = seq /\ <<w.bucketType, w.bucket>> = cur
    /\ Drained => closed /\ wg = 0

C5_Witness ==
    /\ ToFile /\ seq >= 2 /\ pc = "listKeys" /\ files # {}

\* C6: the keys handed over and not yet completed are exactly those held by
\* workers, at most parallel of them, so the keys offered never exceed the
\* transfers completed plus parallel.
C6_Backpressure ==
    /\ i - completed = InFlight
    /\ InFlight <= parallel
    /\ i <= completed + parallel

C6_Witness ==
    /\ pc = "feed" /\ i < total /\ InFlight = parallel

\* C7: the properties are synchronised once per bucket, before its keys are
\* listed or transferred, and only in live sync: a backup issues no
\* properties request.
C7_PropsOnceFirst ==
    /\ ~LiveSync => nProps = 0 /\ nPropsPut = 0
    /\ nProps <= 1 /\ nPropsPut <= nProps
    /\ pc \in {"props", "propsPut"} => nList = 0 /\ nFetch = 0
    /\ (LiveSync /\ (nList > 0 \/ nFetch > 0 \/ ret = "ok")) => nProps = 1

C7_Witness ==
    /\ LiveSync /\ Drained /\ nProps = 1 /\ nPropsPut = 1 /\ nFetch = 2

\* C8: a key listing answered by a status other than a success or 404
\* makes syncBucket fail, and no key of the bucket is transferred.
C8_ListingErrorFails ==
    (nList = 1 /\ listStatus \notin {NoResponse, 200, 404}) =>
        ret = "err" /\ nFetch = 0 /\ NoWorkers

\* C9: a key listing answered by 404 starts no worker and transfers
\* nothing, syncBucket returns nil and the loop goes on; the process can
\* then end non-zero only in a later step of the loop over the types.
C9_NotFoundIsEmpty ==
    (nList = 1 /\ listStatus = 404) =>
        /\ ret = "ok" /\ NoWorkers /\ keys = <<>>
        /\ nFetch = 0 /\ completed = 0 /\ BagToSet(puts) = {}
        /\ pc \in {"buckets", "types"}
        /\ exit = "nonzero" => pc = "types"

C9_Witness ==
    /\ nList = 1 /\ listStatus = 404 /\ exit = "zero"

\* C10: in backup to files with skip-existing, a bucket whose backup
\* directory is there when the loop reaches it causes no key listing and no
\* key fetch.
C10_PresentBucketUntouched ==
    (ToFile /\ skipExisting /\ seq > 0 /\ dirAtReach) =>
        nList = 0 /\ nFetch = 0

C10_Witness ==
    /\ ToFile /\ skipExisting /\ seq > 0 /\ dirAtReach
    /\ pc = "buckets" /\ bi > Len(buckets)

\* C11: in backup to files with skip-existing, a bucket the loop reaches is
\* skipped exactly when its own directory <root>/<type>/<bucket> was there:
\* a bucket whose directory was not there is entered, listed and backed up.
C11_SkipIsPerBucket ==
    (ToFile /\ skipExisting /\ seq > 0) => (skipped <=> dirAtReach)

\* C14: in live sync, a properties GET answered by anything but 200 or 404,
\* or a properties PUT answered by anything but 204 or 400, makes syncBucket
\* fail with no key listing, no key fetch and no key write; after a 404 on
\* the GET, or a 204 or 400 on the PUT, syncBucket goes on to list the keys.
C14_PropsErrorStopsBucket ==
    /\ (nProps = 1 /\ propsStatus \notin {200, 404}) =>
           /\ ret = "err" /\ exit = "nonzero" /\ nPropsPut = 0
           /\ nList = 0 /\ nFetch = 0 /\ BagToSet(puts) = {} /\ NoWorkers
    /\ (nPropsPut = 1 /\ propsPutStatus \notin {204, 400}) =>
           /\ ret = "err" /\ exit = "nonzero"
           /\ nList = 0 /\ nFetch = 0 /\ BagToSet(puts) = {} /\ NoWorkers
    /\ (nProps = 1 /\ propsStatus = 404 /\ nList = 0) =>
           pc = "listKeys" /\ ret = "none" /\ Running /\ nPropsPut = 0
    /\ (nPropsPut = 1 /\ propsPutStatus \in {204, 400} /\ nList = 0) =>
           pc = "listKeys" /\ ret = "none" /\ Running

C14_Witness ==
    /\ LiveSync /\ seq = 2 /\ nPropsPut = 1 /\ propsPutStatus = 500
    /\ ret = "err" /\ nList = 0

\* C15: the keys are sent on the channel in the order of the listing: the
\* n-th send carries the n-th key, whatever the workers do in between.
C15_HandedInListingOrder ==
    /\ Len(handed) = i /\ i <= total
    /\ \A n \in 1..Len(handed) : handed[n] = keys[n]

C15_Witness ==
    /\ backupStdout /\ total = 2 /\ Len(handed) = 2 /\ Len(stdout) >= 1
    /\ stdout[1] = <<"data", QueryEscape(keys[2])>>

\* C16: a progress line names the bucket, the number of keys sent so far and
\* the length of the listing, with the number sent at most the length; the
\* step that logs it changes neither the number sent, nor the listing, the
\* channel, the WaitGroup or any worker.
C16_ProgressAndFrame ==
    /\ [](progress # <<>> =>
             /\ progress = <<cur[2], Len(handed), Len(keys)>>
             /\ 0 <= progress[2] /\ progress[2] <= progress[3]
             /\ pc = "feed")
    /\ [][progress' # <<>> => UNCHANGED <<keys, i, closed, wg, workers, handed>>]_vars

C16_Witness ==
    /\ progress # <<>> /\ progress[2] = 1 /\ progress[3] = 2
    /\ InFlight = 1 /\ completed = 0

\* C18: a destination write, a backup file or a line of the stream exists
\* for a key only if the GET of that key from the source was answered by
\* 200; a key fetch answered otherwise leaves the worker at try or the
\* process exited non-zero, never exited with status 0.
C18_WriteOnlyAfterFetch200 ==
    /\ LiveSync =>
           \A p \in BagToSet(puts) :
               \E k \in fetchOK : p = <<cur[1], cur[2], QueryEscape(k)>>
    /\ (ToFile /\ seq > 0) =>
           \A f \in files :
               f.dir = BucketDir(cur[1], cur[2]) =>
                   \E k \in fetchOK : f.name = QueryEscape(k)
    /\ backupStdout =>
           \A n \in DOMAIN stdout :
               stdout[n][1] = "data" =>
                   \E k \in fetchOK : stdout[n][2] = QueryEscape(k)
    /\ badFetchSeq # 0 =>
           /\ exit # "zero"
           /\ exit = "nonzero" \/ \E w \in BagToSet(workers) : w.st = "failed"
           /\ seq = badFetchSeq /\ pc \in {"feed", "wait"} /\ ret = "none"

C18_Witness ==
    /\ LiveSync /\ badFetchSeq # 0 /\ exit = "nonzero"
    /\ BagCardinality(puts) = 1 /\ nFetch = 2

\* C20: in backup to files, a run that finds the backup root already there
\* exits non-zero at its first step, before any request and with nothing
\* written; a bucket's keys are listed only after its directory, its type's
\* directory and the root were each newly made by this run.
C20_CreateNewOrFail ==
    /\ (ToFile /\ rootAtStart) =>
           /\ pc = "main" /\ exit # "zero" /\ seq = 0 /\ buckets = <<>>
           /\ files = {} /\ dirs = {Root} /\ nList = 0 /\ nFetch = 0
    /\ (ToFile /\ pc \in {"listKeys", "feed", "wait"}) =>
           /\ ~dirAtReach
           /\ {Root, TypeDir(cur[1]), BucketDir(cur[1], cur[2])} \subseteq dirs
    /\ ToFile => \A f \in files : f.dir \in dirs

C20_Witness ==
    /\ ToFile /\ skipExisting /\ rootAtStart /\ exit = "nonzero"

\* C17: under fair scheduling of the sends, the workers and wg.Wait, and
\* whatever the ticker does, a pipeline that has started ends: either
\* syncBucket returns nil with every key handed over, the channel closed,
\* the WaitGroup at zero and every worker gone, or a transfer failed and the
\* process has exited non-zero.
C17_PipelineEnds ==
    (pc = "feed") ~>
        \/ /\ ret = "ok" /\ i = total /\ completed = total
           /\ closed /\ wg = 0 /\ NoWorkers
        \/ exit = "nonzero"

C17_Witness ==
    /\ backupStdout /\ parallel = 2 /\ total = 2 /\ seq = 2
    /\ ret = "ok" /\ completed = 2 /\ closed /\ wg = 0 /\ NoWorkers

\* C12: a record backed up to a file and read back by restoreFromBackup
\* gives the bucket type, bucket and key it was discovered with and the
\* value that was fetched.
C12_FileRoundTrip == tStage = "fromFile" => tOut = tRec

\* C13: a record written to the stream and read back by restoreFromStdin
\* gives the bucket type, bucket and key it was discovered with and the
\* value that was fetched.
C13_StreamRoundTrip == tStage = "fromStream" => tOut = tRec

\* C19: restoreFromStdin issues one destination write per line, in the
\* order of the input, each with the triple and value its line encodes; at
\* the end of the input the process exits with status 0 having written
\* every line; it exits non-zero only on a line that is no record, with no
\* later line written, or on a write answered by a bad status.
C19_StreamRestore ==
    restoreStdin =>
        /\ Len(restored) <= Len(input)
        /\ \A n \in 1..Len(restored) : Marshal(restored[n]) = input[n]
        /\ exit = "zero" => Len(restored) = Len(input) /\ streamErr = "none"
        /\ exit = "nonzero" => streamErr # "none"
        /\ streamErr = "decode" =>
               /\ exit = "nonzero" /\ Len(restored) < Len(input)
               /\ input[Len(restored) + 1] = TornLine
        /\ streamErr = "write" => exit = "nonzero" /\ restored # <<>>

C19_Witness ==
    /\ restoreStdin /\ exit = "zero" /\ Len(restored) = 2
    /\ restored[1] # restored[2] /\ Len(stdin) = 0

====
